---- MODULE Spec2Model ----
(***************************************************************************)
(* A model of the bencode package of nes77/gobc: the value model and its   *)
(* canonical encoder (encoding/bencode/core.go) and the lexer, the parser  *)
(* and the Decode entry points (the parser source of the package).         *)
(*                                                                         *)
(* A byte is an integer 0..255 and a Go string or []byte is a sequence of  *)
(* bytes.  The functions of the package are operators, computed as the     *)
(* code computes them; the actions apply them to inputs drawn in Init.     *)
(***************************************************************************)
EXTENDS Integers, Sequences, FiniteSets, TLC

VARIABLES
    input,   \* the bytes handed to Decode / DecodeBytes / DecodeString
    chunk,   \* how many bytes one Read of the underlying io.Reader returns (0: all, a bytes.Reader)
    pc,      \* position of the caller: "start", "built", "lexing", "decoded", "encoded", "done"
    val,     \* the value tree a caller has built (round trip, constructors)
    verr,    \* the error the constructor of val returned
    lex,     \* the lexer (its bufio.Reader) of a token-by-token run
    start,   \* number of input bytes consumed before the last call of next()
    tok,     \* the last token next() returned, with its error
    pres,    \* what parser.parse returned to Decode: value, error, lexer
    res,     \* what Decode returned to its caller: value, error
    enc      \* the bytes Bencode() returned

vars == <<input, chunk, pc, val, verr, lex, start, tok, pres, res, enc>>

(***************************************************************************)
(* Bytes                                                                   *)
(***************************************************************************)
\* The ASCII codes of the bytes the code names as literals.
Ch ==
    [d |-> 100, l |-> 108, e |-> 101, i |-> 105, colon |-> 58,
     minus |-> 45, plus |-> 43, zero |-> 48, nine |-> 57,
     a |-> 97, b |-> 98, z |-> 122, A |-> 65, Z |-> 90,
     lt |-> 60, gt |-> 62, n |-> 110]

Min(x, y) == IF x <= y THEN x ELSE y

\* F(x) with x computed once, as the code computes a call's result once and
\* then reads it.
Apply(F(_), x) == CHOOSE y \in {F(v) : v \in {x}} : TRUE

\* n copies of byte c: what make([]byte, n) holds when c = 0.
Repeat(c, n) == [k \in 1..n |-> c]

\* unicode.IsDigit(rune(c)) for a byte c: in Latin-1 only '0'..'9' are in Nd.
IsDigit(c) == c >= Ch.zero /\ c <= Ch.nine

(***************************************************************************)
(* Errors.  NoErr is Go's nil error.                                       *)
(***************************************************************************)
NoErr == "nil"
ErrUnexpectedEnd == "ErrUnexpectedEnd"
ErrUnexpectedEOF == "ErrUnexpectedEOF"
ErrBadDictKey == "ErrBadDictKey"
ErrEOF == "io.EOF"
ErrInvalidChar == "Invalid input char"
ErrInvalidInteger == "Invalid integer."
ErrSyntax == "strconv.ErrSyntax"

(***************************************************************************)
(* Values.  Bencodable is an interface: NilValue is the nil interface; a   *)
(* value of kind List or Dict with nil = TRUE is a nil slice or nil map    *)
(* held in a non-nil interface; an Integer with nil = TRUE holds a nil     *)
(* *big.Int.                                                               *)
(***************************************************************************)
NilValue == [kind |-> "nil", nil |-> TRUE, i |-> 0, s |-> <<>>, l |-> <<>>, d |-> <<>>]
Integer(n) == [kind |-> "Integer", nil |-> FALSE, i |-> n, s |-> <<>>, l |-> <<>>, d |-> <<>>]
NilInteger == [kind |-> "Integer", nil |-> TRUE, i |-> 0, s |-> <<>>, l |-> <<>>, d |-> <<>>]
String(s) == [kind |-> "String", nil |-> FALSE, i |-> 0, s |-> s, l |-> <<>>, d |-> <<>>]
List(l, isnil) == [kind |-> "List", nil |-> isnil, i |-> 0, s |-> <<>>, l |-> l, d |-> <<>>]
Dict(d, isnil) == [kind |-> "Dict", nil |-> isnil, i |-> 0, s |-> <<>>, l |-> <<>>, d |-> d]

\* out[k] = v on a Go map.
MapPut(d, k, v) == [x \in (DOMAIN d) \cup {k} |-> IF x = k THEN v ELSE d[x]]

(***************************************************************************)
(* bufio.Reader over an io.Reader.  buf is the unread part of the buffer   *)
(* (b.buf[b.r:b.w]), src what the underlying reader still holds, c how     *)
(* many bytes one Read of it returns.  ev is a history of what happened.   *)
(***************************************************************************)
defaultBufSize == 4096

\* newLexer: bufio.NewReader(r) over a reader holding s whose Read returns at
\* most c bytes (c = 0: bytes.NewReader, whose Read returns all that fits).
newLexer(s, c) == [buf |-> <<>>, src |-> s, c |-> c, ev |-> {}]

RECURSIVE Flatten(_)
Flatten(ss) == IF ss = <<>> THEN <<>> ELSE Head(ss) \o Flatten(Tail(ss))

\* Bytes not yet consumed through the bufio.Reader.
Remaining(lx) == Len(lx.buf) + Len(lx.src)

Note(lx, e) == [lx EXCEPT !.ev = @ \cup {e}]

\* One Read of the underlying reader into a slice of n bytes.
srcRead(lx, n) ==
    LET m == Min(Min(n, Len(lx.src)), IF lx.c = 0 THEN Len(lx.src) ELSE lx.c)
    IN  [data |-> SubSeq(lx.src, 1, m),
         lx |-> [lx EXCEPT !.src = SubSeq(@, m + 1, Len(@))]]

\* bufio.Reader.fill: one Read into the free part of the buffer.
fill(lx) ==
    LET r == srcRead(lx, defaultBufSize - Len(lx.buf))
    IN  [r.lx EXCEPT !.buf = @ \o r.data]

\* bufio.Reader.ReadByte
ReadByte(lx) ==
    LET f == IF lx.buf = <<>> THEN fill(lx) ELSE lx
    IN  IF f.buf = <<>> THEN [c |-> 0, err |-> ErrEOF, lx |-> f]
        ELSE [c |-> Head(f.buf), err |-> NoErr, lx |-> [f EXCEPT !.buf = Tail(@)]]

\* bufio.Reader.UnreadByte after a ReadByte that returned c.
UnreadByte(lx, c) == [lx EXCEPT !.buf = <<c>> \o @]

\* bufio.Reader.ReadString(delim): up to and including the first delim; at the
\* end of the source, what there is and io.EOF.  st is [lx, delim, acc], acc
\* what full buffers have given so far.
RECURSIVE ReadStringFrom(_)
ReadStringFrom(st) ==
    LET lx == st.lx
        idx == {k \in 1..Len(lx.buf) : lx.buf[k] = st.delim}
    IN  IF idx # {} THEN
            LET k == CHOOSE x \in idx : \A y \in idx : x <= y
            IN  [s |-> st.acc \o SubSeq(lx.buf, 1, k), err |-> NoErr,
                 lx |-> [lx EXCEPT !.buf = SubSeq(@, k + 1, Len(@))]]
        ELSE IF lx.src = <<>> THEN
            [s |-> st.acc \o lx.buf, err |-> ErrEOF, lx |-> [lx EXCEPT !.buf = <<>>]]
        ELSE IF Len(lx.buf) >= defaultBufSize THEN
            Apply(ReadStringFrom, [st EXCEPT !.lx.buf = <<>>, !.acc = @ \o lx.buf])
        ELSE Apply(ReadStringFrom, [st EXCEPT !.lx = fill(lx)])

ReadString(lx, delim) == Apply(ReadStringFrom, [lx |-> lx, delim |-> delim, acc |-> <<>>])

\* bufio.Reader.Read(p) with len(p) = n: the bytes of at most one Read of the
\* underlying reader, so fewer than n when the buffer holds fewer.
Read(lx, n) ==
    IF n = 0 THEN [data |-> <<>>, lx |-> lx]
    ELSE IF lx.buf = <<>> /\ n >= defaultBufSize THEN srcRead(lx, n)
    ELSE LET f == IF lx.buf = <<>> THEN fill(lx) ELSE lx
             m == Min(n, Len(f.buf))
         IN  [data |-> SubSeq(f.buf, 1, m),
              lx |-> [f EXCEPT !.buf = SubSeq(@, m + 1, Len(@))]]

(***************************************************************************)
(* Library conversions the lexer and the value model call.                 *)
(***************************************************************************)
\* The digit value big.Int's scanner gives a byte (bases up to 36); 63 is
\* its MaxBase + 1, "not a digit".
DigitVal(c) ==
    IF IsDigit(c) THEN c - Ch.zero
    ELSE IF c >= Ch.a /\ c <= Ch.z THEN c - Ch.a + 10
    ELSE IF c >= Ch.A /\ c <= Ch.Z THEN c - Ch.A + 10
    ELSE 63

RECURSIVE DigitsValue(_, _, _)
DigitsValue(s, base, acc) ==
    IF s = <<>> THEN acc ELSE DigitsValue(Tail(s), base, acc * base + DigitVal(Head(s)))

\* (*big.Int).SetString(s, base), base in 2..36: an optional sign, then one or
\* more digits of the base and nothing else.
SetString(s, base) ==
    LET signed == s # <<>> /\ Head(s) \in {Ch.plus, Ch.minus}
        digits == IF signed THEN Tail(s) ELSE s
        ok == digits # <<>> /\ \A k \in 1..Len(digits) : DigitVal(digits[k]) < base
        mag == DigitsValue(digits, base, 0)
    IN  IF ok THEN [ok |-> TRUE, v |-> IF signed /\ Head(s) = Ch.minus THEN 0 - mag ELSE mag]
        ELSE [ok |-> FALSE, v |-> 0]

\* strconv.ParseUint(s, 10, 64): decimal digits only, no sign.  (A value
\* beyond 64 bits is a range error; no input of the model is that long.)
ParseUint(s) ==
    IF s # <<>> /\ \A k \in 1..Len(s) : IsDigit(s[k])
    THEN [v |-> DigitsValue(s, 10, 0), err |-> NoErr]
    ELSE [v |-> 0, err |-> ErrSyntax]

\* The decimal digits of n >= 0: fmt's %d of a length, big.Int's magnitude.
RECURSIVE Itoa(_)
Itoa(n) == IF n < 10 THEN <<Ch.zero + n>> ELSE Itoa(n \div 10) \o <<Ch.zero + (n % 10)>>

(***************************************************************************)
(* Lexer                                                                   *)
(***************************************************************************)
\* dataToken; hdr, sz and got are history: the bytes of a string's length
\* prefix, the length it declares and the bytes Read returned for it.
Token(t) == [token |-> t, i |-> 0, s |-> <<>>, hdr |-> 0, sz |-> 0, got |-> 0]
BadTok == Token("badtok")

\* lexerImpl.parseInt, r what l.r.ReadString('e') returned.
parseIntOf(r) ==
    LET d == SubSeq(r.s, 1, Len(r.s) - 1)
        b == SetString(d, 10)
    IN  IF r.err # NoErr THEN [t |-> BadTok, err |-> r.err, lx |-> r.lx]
        ELSE IF b.ok THEN [t |-> [Token("integer") EXCEPT !.i = b.v], err |-> NoErr, lx |-> r.lx]
        ELSE [t |-> BadTok, err |-> ErrInvalidInteger, lx |-> r.lx]

parseInt(lx) == Apply(parseIntOf, ReadString(lx, Ch.e))

\* The end of lexerImpl.parseString: out is sz zero bytes, and the count and
\* the error of l.r.Read(out) are dropped, so what Read did not fill stays
\* zero.  st is [r, sz, rr]: what ReadString returned, the length parsed, and
\* what Read returned.
parseStringRead(st) ==
    LET out == st.rr.data \o Repeat(0, st.sz - Len(st.rr.data))
        after == IF Remaining(st.r.lx) < st.sz THEN Note(st.rr.lx, "truncStr")
                 ELSE IF Len(st.rr.data) < st.sz THEN Note(st.rr.lx, "shortRead")
                 ELSE st.rr.lx
    IN  [t |-> [Token("str") EXCEPT !.s = out, !.hdr = Len(st.r.s), !.sz = st.sz,
                                    !.got = Len(st.rr.data)],
         err |-> NoErr, lx |-> after]

\* lexerImpl.parseString, r what l.r.ReadString(':') returned.
parseStringOf(r) ==
    LET le == SubSeq(r.s, 1, Len(r.s) - 1)
        u == ParseUint(le)
    IN  IF r.err # NoErr THEN [t |-> BadTok, err |-> r.err, lx |-> r.lx]
        ELSE IF u.err # NoErr THEN [t |-> BadTok, err |-> u.err, lx |-> r.lx]
        ELSE Apply(parseStringRead, [r |-> r, sz |-> u.v, rr |-> Read(r.lx, u.v)])

parseString(lx) == Apply(parseStringOf, ReadString(lx, Ch.colon))

\* lexerImpl.next, r what l.r.ReadByte() returned.
lexByte(r) ==
    LET c == r.c
    IN  IF r.err = ErrEOF THEN [t |-> Token("eof"), err |-> NoErr, lx |-> r.lx]
        ELSE IF c = Ch.d THEN [t |-> Token("dict"), err |-> NoErr, lx |-> r.lx]
        ELSE IF c = Ch.l THEN [t |-> Token("list"), err |-> NoErr, lx |-> r.lx]
        ELSE IF c = Ch.e THEN [t |-> Token("end"), err |-> NoErr, lx |-> r.lx]
        ELSE IF c = Ch.i THEN parseInt(r.lx)
        ELSE IF IsDigit(c) THEN parseString(UnreadByte(r.lx, c))
        ELSE [t |-> BadTok, err |-> ErrInvalidChar, lx |-> r.lx]

lexNext(lx) == Apply(lexByte, ReadByte(lx))

\* A lexical error noted in the history.
NoteLexErr(r) == IF r.err # NoErr THEN [r EXCEPT !.lx = Note(@, "lexErr")] ELSE r

\* lexerImpl.next
next(lx) == Apply(NoteLexErr, lexNext(lx))

(***************************************************************************)
(* Parser.  A result is [v, err, lx, tok]: the Bencodable and the error    *)
(* the Go function returns, the lexer after it, and (history) the token    *)
(* with which the value began.                                             *)
(***************************************************************************)
Result(v, err, lx, t) == [v |-> v, err |-> err, lx |-> lx, tok |-> t]

RECURSIVE parse(_), parseListLoop(_), parseDictLoop(_), parseDictKey(_)

\* parser.parseList from its first p.parse() on.  st is [out, isnil, r]: the
\* list so far, whether it is still the nil slice, and r = (n, err), what the
\* last p.parse() returned.
parseListLoop(st) ==
    LET r == st.r
    IN  IF r.err = NoErr THEN
            Apply(parseListLoop,
                  [out |-> Append(st.out, r.v), isnil |-> FALSE, r |-> parse(r.lx)])
        ELSE IF r.err = ErrUnexpectedEnd THEN
            Result(List(st.out, st.isnil), NoErr,
                   IF r.tok = "end" THEN r.lx ELSE Note(r.lx, "listEndedByError"), "list")
        ELSE Result(List(<<>>, TRUE), r.err,
                    IF r.err = ErrUnexpectedEOF THEN Note(r.lx, "eofInContainer") ELSE r.lx,
                    "list")

\* parser.parseList
parseList(lx) == Apply(parseListLoop, [out |-> <<>>, isnil |-> TRUE, r |-> parse(lx)])

\* The history of one key/value round of parseDict.
NoteRound(k, v) ==
    LET e1 == IF k.tok \in {"integer", "list", "dict"} THEN {"nonStringKey"} ELSE {}
        e2 == IF k.err = NoErr /\ v.tok = "end" THEN {"endAsValue"} ELSE {}
        e3 == IF ErrUnexpectedEOF \in {k.err, v.err} THEN {"eofInContainer"} ELSE {}
    IN  [v.lx EXCEPT !.ev = @ \cup e1 \cup e2 \cup e3]

\* parser.parseDict after a p.parse() for a key: st is [out, k], the map so
\* far and k = (n, err).  On ErrUnexpectedEnd the map is returned; otherwise
\* p.parse() is called for the value, whatever err is.
parseDictKey(st) ==
    LET k == st.k
    IN  IF k.err = ErrUnexpectedEnd THEN
            Result(Dict(st.out, FALSE), NoErr,
                   IF k.tok = "end" THEN k.lx ELSE Note(k.lx, "dictEndedByError"), "dict")
        ELSE Apply(parseDictLoop, [out |-> st.out, k |-> k, v |-> parse(k.lx)])

\* The loop of parser.parseDict and what follows it.  st is [out, k, v], with
\* k = (n, err) and v = (n2, err2).
parseDictLoop(st) ==
    LET k == st.k
        v == st.v
        lx == NoteRound(k, v)
    IN  IF k.err = NoErr /\ v.err = NoErr THEN
            IF k.v.kind # "String" THEN Result(Dict(st.out, FALSE), ErrBadDictKey, lx, "dict")
            ELSE Apply(parseDictKey, [out |-> MapPut(st.out, k.v.s, v.v), k |-> parse(lx)])
        ELSE IF k.err # NoErr THEN Result(Dict(<<>>, TRUE), k.err, lx, "dict")
        ELSE Result(Dict(<<>>, TRUE), v.err, lx, "dict")

\* parser.parseDict
parseDict(lx) == Apply(parseDictKey, [out |-> <<>>, k |-> parse(lx)])

\* parser.parse after lex.next() returned r.  The List or Dict that parseList
\* / parseDict return becomes a Bencodable: a non-nil interface also when the
\* slice or map is nil.
parseToken(r) ==
    LET t == r.t.token
    IN  IF r.err # NoErr THEN Result(NilValue, r.err, r.lx, "badtok")
        ELSE IF t = "dict" THEN parseDict(r.lx)
        ELSE IF t = "list" THEN parseList(r.lx)
        ELSE IF t = "integer" THEN Result(Integer(r.t.i), NoErr, r.lx, t)
        ELSE IF t = "str" THEN Result(String(r.t.s), NoErr, r.lx, t)
        ELSE IF t = "end" THEN Result(NilValue, ErrUnexpectedEnd, r.lx, t)
        ELSE Result(NilValue, ErrUnexpectedEOF, r.lx, t)

\* parser.parse
parse(lx) == Apply(parseToken, next(lx))

\* Decode, given what (&parser{lex: lex}).parse() returned.
DecodeResult(p) ==
    IF p.err # NoErr /\ p.v.kind = "nil" THEN [v |-> NilValue, err |-> p.err]
    ELSE [v |-> p.v, err |-> NoErr]

\* Decode(r) over a reader that returns c bytes per Read.
Decode(s, c) == DecodeResult(parse(newLexer(s, c)))

\* DecodeBytes(b) and DecodeString(s): Decode(bytes.NewReader(...)).
DecodeBytes(b) == Decode(b, 0)
DecodeString(s) == Decode(s, 0)

(***************************************************************************)
(* Value model: constructors and Bencode                                   *)
(***************************************************************************)
\* NewInt64 / NewUint64
NewInt64(n) == Integer(n)
NewUint64(n) == Integer(n)

\* NewIntFromString: the Integer and the error it returns.
NewIntFromString(s, base) ==
    LET b == SetString(s, base)
    IN  IF b.ok THEN [v |-> Integer(b.v), err |-> NoErr]
        ELSE [v |-> NilInteger, err |-> NoErr]

\* fmt.Sprintf("%s", i.i) of a *big.Int.
FormatBigInt(v) ==
    IF v.nil THEN <<Ch.lt, Ch.n, Ch.i, Ch.l, Ch.gt>>
    ELSE IF v.i < 0 THEN <<Ch.minus>> \o Itoa(0 - v.i)
    ELSE Itoa(v.i)

\* a < b for Go strings: byte-wise lexicographic.
StringLess(a, b) ==
    \E k \in 1..(Min(Len(a), Len(b)) + 1) :
        /\ \A j \in 1..(k - 1) : a[j] = b[j]
        /\ \/ k > Len(a) /\ k <= Len(b)
           \/ k <= Len(a) /\ k <= Len(b) /\ a[k] < b[k]

RECURSIVE Insert(_, _)
Insert(x, sorted) ==
    IF sorted = <<>> THEN <<x>>
    ELSE IF StringLess(x, Head(sorted)) THEN <<x>> \o sorted
    ELSE <<Head(sorted)>> \o Insert(x, Tail(sorted))

\* Dict.Bencode without its sort.Strings(keys): the keys in range order.
SortStrings_Skipped(keys) == keys

\* sort.Strings(keys)
RECURSIVE SortStrings(_)
SortStrings(keys) ==
    IF keys = <<>> THEN <<>> ELSE Insert(Head(keys), SortStrings(Tail(keys)))

\* The order in which a range over a map visits its keys is not specified:
\* an encoding is computed under an order ord, and the callers draw ord.
Orders == {"ascending", "descending"}

\* for k := range d { keys = append(keys, k) }: the keys in the order ord.
RECURSIVE RangeKeys(_, _)
RangeKeys(S, ord) ==
    IF S = {} THEN <<>>
    ELSE LET x == CHOOSE y \in S : \A z \in S \ {y} :
                      IF ord = "ascending" THEN StringLess(y, z) ELSE StringLess(z, y)
         IN  <<x>> \o RangeKeys(S \ {x}, ord)

RECURSIVE Bencode(_, _), BencodeAll(_, _), BencodeEntries(_, _, _)

\* Integer.Bencode
IntegerBencode(v) == <<Ch.i>> \o FormatBigInt(v) \o <<Ch.e>>

\* String.Bencode
StringBencode(s) == Itoa(Len(s)) \o <<Ch.colon>> \o s

\* The loop of List.Bencode.
BencodeAll(l, ord) ==
    IF l = <<>> THEN <<>> ELSE Bencode(Head(l), ord) \o BencodeAll(Tail(l), ord)

\* The second loop of Dict.Bencode.
BencodeEntries(d, keys, ord) ==
    IF keys = <<>> THEN <<>>
    ELSE StringBencode(Head(keys)) \o Bencode(d[Head(keys)], ord)
            \o BencodeEntries(d, Tail(keys), ord)

\* Dict.Bencode
DictBencode(d, ord) ==
    <<Ch.d>> \o BencodeEntries(d, SortStrings(RangeKeys(DOMAIN d, ord)), ord) \o <<Ch.e>>

\* Bencodable.Bencode, by the dynamic type.
Bencode(v, ord) ==
    IF v.kind = "Integer" THEN IntegerBencode(v)
    ELSE IF v.kind = "String" THEN StringBencode(v.s)
    ELSE IF v.kind = "List" THEN <<Ch.l>> \o BencodeAll(v.l, ord) \o <<Ch.e>>
    ELSE DictBencode(v.d, ord)

(***************************************************************************)
(* Bounds and the inputs drawn from them                                   *)
(***************************************************************************)
MaxToks == 5      \* lexemes in a generated input
MaxChunk == 2     \* bytes per Read of a slow underlying reader
MaxInt == 10      \* magnitude of the integers a caller builds
MaxKeyLen == 2    \* bytes in a dictionary key a caller builds
MaxSize == 2      \* elements of a list, entries of a dictionary a caller builds
MaxNumLen == 2    \* bytes in a string handed to NewIntFromString

\* All byte sequences over alphabet A of length at most n.
SeqsUpTo(A, n) == UNION {[1..k -> A] : k \in 0..n}

\* The pieces generated inputs are made of: well-formed tokens, and "i" and
\* "2:b", which are malformed or not according to what follows them.
Lexemes ==
    {<<Ch.d>>, <<Ch.l>>, <<Ch.e>>, <<Ch.i, Ch.zero + 1, Ch.e>>,
     <<Ch.zero + 1, Ch.colon, Ch.a>>, <<Ch.zero, Ch.colon>>,
     <<Ch.zero + 2, Ch.colon, Ch.b>>, <<Ch.i>>}

\* The inputs made of at most n lexemes.
LexInputs(n) == {Flatten(ls) : ls \in UNION {[1..k -> Lexemes] : k \in 0..n}}

\* A string that does not fit the buffer of the bufio.Reader together with
\* its length prefix.
BigString == Repeat(Ch.a, defaultBufSize)
BigLiteral == Itoa(Len(BigString)) \o <<Ch.colon>> \o BigString

\* "d" key v1 key v2 "e": the same key twice, with well-formed values.
DupKeys == {<<>>, <<Ch.a>>}
DupVals ==
    {<<Ch.i, Ch.zero + 1, Ch.e>>, <<Ch.i, Ch.zero + 2, Ch.e>>, <<Ch.l, Ch.e>>,
     <<Ch.d, Ch.e>>, <<Ch.zero + 2, Ch.colon, Ch.a, Ch.b>>, BigLiteral}
DupOf(k, v1, v2) ==
    <<Ch.d>> \o Itoa(Len(k)) \o <<Ch.colon>> \o k \o v1
             \o Itoa(Len(k)) \o <<Ch.colon>> \o k \o v2 \o <<Ch.e>>
DupInputs == {DupOf(k, v1, v2) : k \in DupKeys, v1 \in DupVals, v2 \in DupVals}

\* The inputs of TestDecode and TestEncode (bencode_test.go).
TestInputs ==
    {<<105, 49, 51, 51, 55, 101>>,
     <<52, 58, 98, 117, 116, 116>>,
     <<108, 52, 58, 98, 117, 116, 116, 105, 52, 48, 48, 48, 101, 101>>,
     <<100, 52, 58, 98, 117, 116, 116, 105, 52, 48, 48, 48, 101, 101>>,
     <<100, 52, 58, 98, 117, 116, 116, 105, 52, 48, 48, 48, 101,
       53, 58, 98, 117, 116, 116, 50, 105, 55, 48, 48, 101, 101>>,
     <<108, 52, 58, 98, 117, 116, 116, 105, 52, 48, 48, 48, 101,
       108, 101, 100, 101, 108, 101, 100, 101, 101>>,
     <<108, 108, 108, 108, 108, 100, 101, 101, 101, 101, 101, 101>>}

\* The inputs the documentation of the package gives as examples: "e",
\* "d3:keye", "i12qe", "10:abc", "d1:ai1e1:ai2ee", "3:1:2", "i-42e".
DocInputs ==
    {<<101>>,
     <<100, 51, 58, 107, 101, 121, 101>>,
     <<105, 49, 50, 113, 101>>,
     <<49, 48, 58, 97, 98, 99>>,
     <<100, 49, 58, 97, 105, 49, 101, 49, 58, 97, 105, 50, 101, 101>>,
     <<51, 58, 49, 58, 50>>,
     <<105, 45, 52, 50, 101>>}

Inputs(n) == LexInputs(n) \cup DupInputs \cup TestInputs \cup DocInputs \cup {BigLiteral}

\* What a caller builds values from.
Keys == SeqsUpTo({Ch.a, Ch.b}, MaxKeyLen)
Leaves ==
    {Integer(0 - MaxInt), Integer(MaxInt), String(<<>>), String(<<Ch.zero + 1, Ch.colon>>),
     String(<<Ch.e>>)}
Elems ==
    Leaves \cup {List(<<>>, FALSE), Dict(<<>>, FALSE),
                 List(<<Integer(0), String(<<Ch.a>>)>>, FALSE),
                 Dict(MapPut(MapPut(<<>>, <<Ch.b>>, Integer(1)), <<Ch.a>>, List(<<>>, TRUE)), FALSE)}
\* The values a caller puts in a dictionary.
PutVals ==
    {Integer(MaxInt), String(<<Ch.zero + 1, Ch.colon>>),
     Dict(MapPut(MapPut(<<>>, <<Ch.b>>, Integer(1)), <<Ch.a>>, List(<<>>, TRUE)), FALSE)}
NumStrings == SeqsUpTo({Ch.minus, Ch.plus, Ch.zero, Ch.zero + 1, Ch.a}, MaxNumLen)
Bases == {2, 10, 16}

(***************************************************************************)
(* State                                                                   *)
(***************************************************************************)
NoTok == [t |-> Token("none"), err |-> NoErr]
NoRes == [v |-> NilValue, err |-> NoErr]
NoParse == Result(NilValue, NoErr, newLexer(<<>>, 0), "none")

\* Bytes of the input consumed through lexer lx.
Pos(lx) == Len(input) - Remaining(lx)

InitCommon ==
    /\ val = NilValue
    /\ verr = NoErr
    /\ start = 0
    /\ tok = NoTok
    /\ pres = NoParse
    /\ res = NoRes
    /\ enc = <<>>

(***************************************************************************)
(* Spec: a caller decodes an input and encodes what it got.                *)
(***************************************************************************)
Init ==
    /\ input \in Inputs(MaxToks)
    /\ chunk = 0
    /\ pc = "start"
    /\ lex = newLexer(<<>>, 0)
    /\ InitCommon

\* DecodeString(input)
DoDecodeString ==
    /\ pc = "start"
    /\ pres' = parse(newLexer(input, 0))
    /\ res' = DecodeResult(pres')
    /\ pc' = "decoded"
    /\ UNCHANGED <<input, chunk, val, verr, lex, start, tok, enc>>

\* Decode(r), r a reader that returns c bytes per Read.
DoDecode(c) ==
    /\ pc = "start"
    /\ chunk' = c
    /\ pres' = parse(newLexer(input, c))
    /\ res' = DecodeResult(pres')
    /\ pc' = "decoded"
    /\ UNCHANGED <<input, val, verr, lex, start, tok, enc>>

\* res.Bencode() on the value a decode returned with a nil error.
DoReencode ==
    /\ pc = "decoded"
    /\ res.err = NoErr
    /\ res.v.kind # "nil"
    /\ \E ord \in Orders : enc' = Bencode(res.v, ord)
    /\ pc' = "encoded"
    /\ UNCHANGED <<input, chunk, val, verr, lex, start, tok, pres, res>>

Next ==
    \/ DoDecodeString
    \/ \E c \in 1..MaxChunk : DoDecode(c)
    \/ DoReencode

Spec == Init /\ [][Next]_vars

(***************************************************************************)
(* SpecLex: the lexer, one call of next() per step.                        *)
(***************************************************************************)
InitLex ==
    /\ input \in Inputs(MaxToks)
    /\ chunk \in 0..MaxChunk
    /\ pc = "lexing"
    /\ lex = newLexer(input, chunk)
    /\ InitCommon

\* lex.next()
DoNext ==
    /\ pc = "lexing"
    /\ tok.err = NoErr
    /\ tok.t.token # "eof"
    /\ LET r == next(lex)
       IN  /\ tok' = [t |-> r.t, err |-> r.err]
           /\ lex' = r.lx
    /\ start' = Pos(lex)
    /\ UNCHANGED <<input, chunk, pc, val, verr, pres, res, enc>>

NextLex == DoNext

SpecLex == InitLex /\ [][NextLex]_vars

(***************************************************************************)
(* SpecRT: a caller builds a value, encodes it and decodes the bytes.      *)
(***************************************************************************)
InitRT ==
    /\ input = <<>>
    /\ chunk = 0
    /\ pc = "start"
    /\ lex = newLexer(<<>>, 0)
    /\ InitCommon

Built(v, e) ==
    /\ val' = v
    /\ verr' = e
    /\ pc' = "built"
    /\ UNCHANGED <<input, chunk, lex, start, tok, pres, res, enc>>

DoNewInt64 == pc = "start" /\ \E n \in (0 - MaxInt)..MaxInt : Built(NewInt64(n), NoErr)
DoNewUint64 == pc = "start" /\ \E n \in 0..MaxInt : Built(NewUint64(n), NoErr)
DoNewIntFromString ==
    /\ pc = "start"
    /\ \E s \in NumStrings, base \in Bases :
        LET r == NewIntFromString(s, base) IN Built(r.v, r.err)
DoNewString ==
    /\ pc = "start"
    /\ \E s \in Keys \cup {l.s : l \in Leaves} \cup {BigString} : Built(String(s), NoErr)
DoNewList == pc = "start" /\ \E isnil \in BOOLEAN : Built(List(<<>>, isnil), NoErr)
DoNewDict == pc = "start" /\ Built(Dict(<<>>, FALSE), NoErr)

\* val = append(val, x)
DoAppend ==
    /\ pc = "built"
    /\ val.kind = "List"
    /\ Len(val.l) < MaxSize
    /\ \E x \in Elems : val' = List(Append(val.l, x), FALSE)
    /\ UNCHANGED <<input, chunk, pc, verr, lex, start, tok, pres, res, enc>>

\* val[k] = x
DoPut ==
    /\ pc = "built"
    /\ val.kind = "Dict"
    /\ \E k \in Keys, x \in PutVals :
        /\ Cardinality((DOMAIN val.d) \cup {k}) <= MaxSize
        /\ val' = Dict(MapPut(val.d, k, x), FALSE)
    /\ UNCHANGED <<input, chunk, pc, verr, lex, start, tok, pres, res, enc>>

\* enc = val.Bencode()
DoEncode ==
    /\ pc = "built"
    /\ \E ord \in Orders : enc' = Bencode(val, ord)
    /\ pc' = "encoded"
    /\ UNCHANGED <<input, chunk, val, verr, lex, start, tok, pres, res>>

\* DecodeBytes(enc)
DoDecodeBytes ==
    /\ pc = "encoded"
    /\ input' = enc
    /\ pres' = parse(newLexer(enc, 0))
    /\ res' = DecodeResult(pres')
    /\ pc' = "done"
    /\ UNCHANGED <<chunk, val, verr, lex, start, tok, enc>>

NextRT ==
    \/ DoNewInt64
    \/ DoNewUint64
    \/ DoNewIntFromString
    \/ DoNewString
    \/ DoNewList
    \/ DoNewDict
    \/ DoAppend
    \/ DoPut
    \/ DoEncode
    \/ DoDecodeBytes

SpecRT == InitRT /\ [][NextRT]_vars

(***************************************************************************)
(* What the properties below are stated with                               *)
(***************************************************************************)
\* a < b byte-wise, by the first place where a and b differ.
RECURSIVE ByteLess(_, _)
ByteLess(a, b) ==
    IF b = <<>> THEN FALSE
    ELSE IF a = <<>> THEN TRUE
    ELSE IF Head(a) # Head(b) THEN Head(a) < Head(b)
    ELSE ByteLess(Tail(a), Tail(b))

\* Structural equality of two value trees: same kinds, integers, bytes, list
\* order and key/value mapping (a nil and an empty container are equal).
RECURSIVE Equal(_, _)
Equal(v, w) ==
    /\ v.kind = w.kind
    /\ v.kind = "Integer" => v.nil = w.nil /\ v.i = w.i
    /\ v.kind = "String" => v.s = w.s
    /\ v.kind = "List" =>
        /\ Len(v.l) = Len(w.l)
        /\ \A k \in 1..Len(v.l) : Equal(v.l[k], w.l[k])
    /\ v.kind = "Dict" =>
        /\ DOMAIN v.d = DOMAIN w.d
        /\ \A k \in DOMAIN v.d : Equal(v.d[k], w.d[k])

\* A value tree with no nil *big.Int and no nil interface in it.
RECURSIVE WellFormed(_)
WellFormed(v) ==
    /\ v.kind # "nil"
    /\ v.kind = "Integer" => ~v.nil
    /\ v.kind = "List" => \A k \in 1..Len(v.l) : WellFormed(v.l[k])
    /\ v.kind = "Dict" => \A k \in DOMAIN v.d : WellFormed(v.d[k])

\* The first place from p on where s holds byte c; 0 when there is none.
Find(s, p, c) ==
    LET idx == {k \in p..Len(s) : s[k] = c}
    IN  IF idx = {} THEN 0 ELSE CHOOSE x \in idx : \A y \in idx : x <= y

\* Decimal digits with no leading zero other than the single digit 0.
CanonDigits(ds) ==
    /\ ds # <<>>
    /\ \A k \in 1..Len(ds) : IsDigit(ds[k])
    /\ Len(ds) = 1 \/ ds[1] # Ch.zero

\* The body of a canonical integer literal: digits, or '-' and digits not 0.
CanonIntBody(body) ==
    IF body # <<>> /\ body[1] = Ch.minus
    THEN CanonDigits(Tail(body)) /\ Tail(body) # <<Ch.zero>>
    ELSE CanonDigits(body)

\* The wire format: the place after the one canonical value that starts at
\* s[p], or 0 when none starts there.
RECURSIVE CanonEnd(_, _), CanonListEnd(_, _), CanonDictEnd(_, _, _, _)
CanonStringEnd(s, p) ==
    LET q == Find(s, p, Ch.colon)
        pre == SubSeq(s, p, q - 1)
    IN  IF q = 0 \/ ~CanonDigits(pre) THEN 0
        ELSE IF q + DigitsValue(pre, 10, 0) > Len(s) THEN 0
        ELSE q + DigitsValue(pre, 10, 0) + 1

CanonEnd(s, p) ==
    IF p > Len(s) THEN 0
    ELSE IF s[p] = Ch.i THEN
        LET q == Find(s, p, Ch.e)
        IN  IF q # 0 /\ CanonIntBody(SubSeq(s, p + 1, q - 1)) THEN q + 1 ELSE 0
    ELSE IF IsDigit(s[p]) THEN CanonStringEnd(s, p)
    ELSE IF s[p] = Ch.l THEN CanonListEnd(s, p + 1)
    ELSE IF s[p] = Ch.d THEN CanonDictEnd(s, p + 1, FALSE, <<>>)
    ELSE 0

CanonListEnd(s, p) ==
    IF p > Len(s) THEN 0
    ELSE IF s[p] = Ch.e THEN p + 1
    ELSE LET q == CanonEnd(s, p) IN IF q = 0 THEN 0 ELSE CanonListEnd(s, q)

CanonDictEnd(s, p, hasPrev, prev) ==
    IF p > Len(s) THEN 0
    ELSE IF s[p] = Ch.e THEN p + 1
    ELSE IF ~IsDigit(s[p]) THEN 0
    ELSE LET q == CanonStringEnd(s, p)
             key == SubSeq(s, Find(s, p, Ch.colon) + 1, q - 1)
             r == CanonEnd(s, q)
         IN  IF q = 0 \/ (hasPrev /\ ~ByteLess(prev, key)) \/ r = 0 THEN 0
             ELSE CanonDictEnd(s, r, TRUE, key)

\* s is the canonical bencoding of one value.
IsCanonical(s) == CanonEnd(s, 1) = Len(s) + 1

Decoded == pc \in {"decoded", "encoded"}

(***************************************************************************)
(* Properties                                                              *)
(***************************************************************************)
\* C1: round trip.  For every well-formed value tree V a caller builds,
\* DecodeBytes(V.Bencode()) returns no error and a value structurally equal
\* to V.
C1_RoundTrip ==
    (pc = "done" /\ WellFormed(val)) => (res.err = NoErr /\ Equal(res.v, val))

\* The round trip holds of every value whose encoding fits the buffer of the
\* bufio.Reader, so that no string of it is read short.
RoundTripWithinBuffer ==
    (pc = "done" /\ WellFormed(val) /\ Len(enc) <= defaultBufSize)
        => (res.err = NoErr /\ Equal(res.v, val))

\* The decode hit an error: the parser returned one to Decode, or, at some
\* depth, the lexer reported one, the input ended inside a list or a
\* dictionary, or a dictionary key was no string.
HitError ==
    \/ pres.err # NoErr
    \/ pres.lx.ev \cap {"lexErr", "eofInContainer", "nonStringKey"} # {}

\* C2: every error is surfaced.  Whenever the lexer or the parser hits an
\* error at any depth, the decode returns a non-nil error and no value; it
\* never returns a value together with a nil error.
C2_ErrorSurfaced ==
    (Decoded /\ HitError) => (res.err # NoErr /\ res.v = NilValue)

\* The keys of S, each once, in strictly ascending byte-wise order.
AscendingKeys(S) ==
    CHOOSE ks \in [1..Cardinality(S) -> S] :
        \A x, y \in 1..Cardinality(S) : x < y => ByteLess(ks[x], ks[y])

\* The canonical bytes of a value tree: a dictionary is 'd', its keys in
\* ascending order, each followed by the bytes of its own value, and 'e'.
RECURSIVE Canonical(_)
Canonical(v) ==
    IF v.kind = "List" THEN
        <<Ch.l>> \o Flatten([k \in 1..Len(v.l) |-> Canonical(v.l[k])]) \o <<Ch.e>>
    ELSE IF v.kind = "Dict" THEN
        LET ks == AscendingKeys(DOMAIN v.d)
        IN  <<Ch.d>>
            \o Flatten([k \in 1..Len(ks) |-> StringBencode(ks[k]) \o Canonical(v.d[ks[k]])])
            \o <<Ch.e>>
    ELSE IF v.kind = "String" THEN StringBencode(v.s)
    ELSE IntegerBencode(v)

\* C3: canonical dictionary ordering.  Whatever the order the entries were
\* inserted in and the map is ranged over, Dict.Bencode emits 'd', then each
\* key exactly once in strictly ascending byte-wise order, each followed by
\* the encoding of its own value, then 'e'; so too for the dictionaries
\* nested in a list or a dictionary.
C3_CanonicalDictOrder ==
    (pc \in {"encoded", "done"} /\ val.kind \in {"Dict", "List"}) => enc = Canonical(val)

\* A dictionary of two keys, the longer of which is the smaller, has been
\* encoded.
C3_Witness ==
    /\ pc = "encoded"
    /\ val.kind = "Dict"
    /\ DOMAIN val.d = {<<Ch.b>>, <<Ch.a, Ch.a>>}
    /\ val.d[<<Ch.b>>] # val.d[<<Ch.a, Ch.a>>]

\* C4: a string literal that declares more bytes than the stream still holds
\* makes the decode fail, and no String is returned.
C4_TruncatedStringFails ==
    (Decoded /\ "truncStr" \in pres.lx.ev) => (res.err # NoErr /\ res.v.kind # "String")

\* C5: re-encoding identity.  DecodeString of a canonical bencoding of one
\* value succeeds, and Bencode of the result gives the input back byte for
\* byte.
C5_ReencodeIdentity ==
    (chunk = 0 /\ IsCanonical(input)) =>
        /\ Decoded => (res.err = NoErr /\ res.v.kind # "nil")
        /\ pc = "encoded" => enc = input

\* Re-encoding identity holds of every canonical input that fits the buffer
\* of the bufio.Reader.
ReencodeIdentityWithinBuffer ==
    (chunk = 0 /\ IsCanonical(input) /\ Len(input) <= defaultBufSize) =>
        /\ Decoded => (res.err = NoErr /\ res.v.kind # "nil")
        /\ pc = "encoded" => enc = input

\* C6: when a key position of a dictionary holds an Integer, a List or a
\* Dict, the decode fails with ErrBadDictKey.
C6_BadKeyFails ==
    (Decoded /\ "nonStringKey" \in pres.lx.ev) => res.err = ErrBadDictKey

\* C7: when an 'e' stands where a dictionary value is expected, the decode
\* fails with an error; the 'e' never ends an enclosing container that is
\* then returned as decoded.
C7_KeyWithoutValueFails ==
    (Decoded /\ "endAsValue" \in pres.lx.ev) => res.err # NoErr

\* C8: duplicate keys are last-write-wins.  Decoding "d" key v1 key v2 "e"
\* succeeds with a Dict of exactly one entry, which maps the key to the value
\* of v2.
C8_LastWriteWins ==
    (Decoded /\ input \in DupInputs) =>
        \A k \in DupKeys, v1 \in DupVals, v2 \in DupVals :
            input = DupOf(k, v1, v2) =>
                /\ res.err = NoErr
                /\ res.v.kind = "Dict"
                /\ DOMAIN res.v.d = {k}
                /\ \A ord \in Orders : Bencode(res.v.d[k], ord) = v2

\* Last-write-wins holds when the input is read through a bytes.Reader and
\* fits the buffer of the bufio.Reader.
LastWriteWinsWithinBuffer ==
    (Decoded /\ input \in DupInputs /\ chunk = 0 /\ Len(input) <= defaultBufSize) =>
        \A k \in DupKeys, v1 \in DupVals, v2 \in DupVals :
            input = DupOf(k, v1, v2) =>
                /\ res.err = NoErr
                /\ res.v.kind = "Dict"
                /\ DOMAIN res.v.d = {k}
                /\ \A ord \in Orders : Bencode(res.v.d[k], ord) = v2

\* C9: exact-length string read.  When next() returns a string token for a
\* literal that declares sz bytes and the stream holds at least sz bytes
\* after the ':', the payload is those sz bytes and the lexer stands right
\* after them, however the underlying reader cuts the stream.
C9_ExactLengthRead ==
    (tok.t.token = "str" /\ start + tok.t.hdr + tok.t.sz <= Len(input)) =>
        /\ tok.t.s = SubSeq(input, start + tok.t.hdr + 1, start + tok.t.hdr + tok.t.sz)
        /\ Pos(lex) = start + tok.t.hdr + tok.t.sz

\* Read through a bytes.Reader, a string that lies within the first
\* defaultBufSize bytes of the input is read exactly.
ExactLengthReadWithinBuffer ==
    (tok.t.token = "str" /\ chunk = 0 /\ Len(input) <= defaultBufSize
        /\ start + tok.t.hdr + tok.t.sz <= Len(input)) =>
        /\ tok.t.s = SubSeq(input, start + tok.t.hdr + 1, start + tok.t.hdr + tok.t.sz)
        /\ Pos(lex) = start + tok.t.hdr + tok.t.sz

\* 'i', an optional '-', decimal digits with no leading zero other than the
\* single digit 0, then 'e'.
CanonIntLiteral(s) ==
    /\ Len(s) >= 3
    /\ s[1] = Ch.i
    /\ s[Len(s)] = Ch.e
    /\ LET body == SubSeq(s, 2, Len(s) - 1)
       IN  IF body[1] = Ch.minus THEN CanonDigits(Tail(body)) ELSE CanonDigits(body)

\* C10: every Integer a constructor returns with a nil error encodes as 'i',
\* an optional '-', decimal digits with no leading zero other than the single
\* digit 0, then 'e'.
C10_IntegerEncodingCanonical ==
    (pc \in {"encoded", "done"} /\ val.kind = "Integer" /\ verr = NoErr)
        => CanonIntLiteral(enc)

\* An Integer that holds a big.Int encodes canonically.
IntegerEncodingCanonicalNonNil ==
    (pc \in {"encoded", "done"} /\ val.kind = "Integer" /\ ~val.nil) => CanonIntLiteral(enc)

====
